---- MODULE Spec2Model ----
(***************************************************************************)
(* Model of the reconciliation engine (src/reconciliation.py) as driven by *)
(* the upload handler (src/app.py: process).                               *)
(*                                                                         *)
(* Cell texts are sequences of one-character strings, so that strip,       *)
(* lower-casing and the regular expressions are computed on characters.    *)
(* Amounts are exact decimals counted in units of 10^-7 dollar (Scale      *)
(* units per dollar); binary floating-point representation error is not    *)
(* modelled.  A missing value (NaN / pd.NA) of a text column is NoValue,   *)
(* of a numeric column it is NaN.                                          *)
(***************************************************************************)
EXTENDS Integers, Sequences, FiniteSets, TLC

\* Largest number of data rows of the statement sheet / of the settlement sheet.
MaxStmtRows == 2
MaxSettRows == 2

----------------------------------------------------------------------------
(* Characters and strings *)

Digits == {"0", "1", "2", "3", "4", "5", "6", "7", "8", "9"}
DigitChars == <<"0", "1", "2", "3", "4", "5", "6", "7", "8", "9">>
Whitespace == {" ", "\t", "\n"}
UpperChars == <<"A","B","C","D","E","F","G","H","I","J","K","L","M",
                "N","O","P","Q","R","S","T","U","V","W","X","Y","Z">>
LowerChars == <<"a","b","c","d","e","f","g","h","i","j","k","l","m",
                "n","o","p","q","r","s","t","u","v","w","x","y","z">>

\* A missing text value (NaN, "nan", pd.NA) of a string column.
NoValue == <<>>

DigitVal(c) == (CHOOSE i \in 1..10 : DigitChars[i] = c) - 1

AllDigits(s) == \A i \in 1..Len(s) : s[i] \in Digits

RECURSIVE LStrip(_)
LStrip(s) == IF s # <<>> /\ Head(s) \in Whitespace THEN LStrip(Tail(s)) ELSE s

RECURSIVE RStrip(_)
RStrip(s) ==
    IF s # <<>> /\ s[Len(s)] \in Whitespace
    THEN RStrip(SubSeq(s, 1, Len(s) - 1))
    ELSE s

\* str.strip()
strip(s) == RStrip(LStrip(s))

LowerChar(c) ==
    IF \E i \in 1..26 : UpperChars[i] = c
    THEN LowerChars[CHOOSE i \in 1..26 : UpperChars[i] = c]
    ELSE c

\* str.lower()
lower(s) == [i \in 1..Len(s) |-> LowerChar(s[i])]

str_cancel == <<"c","a","n","c","e","l">>
str_dollar_received ==
    <<"d","o","l","l","a","r"," ","r","e","c","e","i","v","e","d">>
str_777 == <<"7","7","7">>
str_XXP == <<"X","X","P">>

----------------------------------------------------------------------------
(* Regular expressions: re.search finds the leftmost match *)

\* The literal `pre` followed by n digits matches at position i of s.
MatchesAt(s, i, pre, n) ==
    /\ i >= 1
    /\ i + Len(pre) + n - 1 <= Len(s)
    /\ SubSeq(s, i, i + Len(pre) - 1) = pre
    /\ AllDigits(SubSeq(s, i + Len(pre), i + Len(pre) + n - 1))

\* Leftmost position >= i where `pre`\d{n} matches, 0 when there is none.
RECURSIVE Search(_, _, _, _)
Search(s, i, pre, n) ==
    IF i > Len(s) THEN 0
    ELSE IF MatchesAt(s, i, pre, n) THEN i
    ELSE Search(s, i + 1, pre, n)

\* str.extract(r"(\d{11})$"): the last 11 characters, when all are digits.
extract_end11(s) ==
    IF MatchesAt(s, Len(s) - 10, <<>>, 11)
    THEN SubSeq(s, Len(s) - 10, Len(s))
    ELSE NoValue

\* str.extract(r"XXP(\d{8})"): the 8 digits captured after the leftmost XXP
\* that 8 digits follow.
extract_xxp8(s) ==
    LET i == Search(s, 1, str_XXP, 8)
    IN  IF i = 0 THEN NoValue ELSE SubSeq(s, i + 3, i + 10)

\* str.extract(r"(777\d{8})")
extract_777(s) ==
    LET i == Search(s, 1, str_777, 8)
    IN  IF i = 0 THEN NoValue ELSE SubSeq(s, i, i + 10)

\* str.extract(r"(\d{11})")
extract_any11(s) ==
    LET i == Search(s, 1, <<>>, 11)
    IN  IF i = 0 THEN NoValue ELSE SubSeq(s, i, i + 10)

\* str.match(r"^\d{11}$")
match_11digits(s) == Len(s) = 11 /\ AllDigits(s)

----------------------------------------------------------------------------
(* Numbers *)

\* Units per dollar of the fixed-point amounts.
Scale == 10 ^ 7

NaN == [nan |-> TRUE, v |-> 0]
Num(x) == [nan |-> FALSE, v |-> x]

RECURSIVE IntVal(_)
IntVal(ds) ==
    IF ds = <<>> THEN 0
    ELSE 10 * IntVal(SubSeq(ds, 1, Len(ds) - 1)) + DigitVal(ds[Len(ds)])

\* Value, in units, of the decimals ds that follow the point.
FracVal(ds) ==
    LET p == IF Len(ds) > 7 THEN SubSeq(ds, 1, 7) ELSE ds
    IN  IntVal(p) * (10 ^ (7 - Len(p)))

\* pd.to_numeric(errors="coerce") of one string of digits, dots and minus signs.
to_numeric(s) ==
    LET neg  == s # <<>> /\ s[1] = "-"
        body == IF neg THEN Tail(s) ELSE s
        dots == {i \in 1..Len(body) : body[i] = "."}
        ok   == /\ \A i \in 1..Len(body) : body[i] \in Digits \cup {"."}
                /\ Cardinality(dots) <= 1
                /\ \E i \in 1..Len(body) : body[i] \in Digits
        dot  == IF dots = {} THEN Len(body) + 1 ELSE CHOOSE i \in dots : TRUE
        mag  == IntVal(SubSeq(body, 1, dot - 1)) * Scale
                + FracVal(SubSeq(body, dot + 1, Len(body)))
    IN  IF ~ok THEN NaN ELSE Num(IF neg THEN -mag ELSE mag)

\* str.replace(r"[^0-9\.\-]+", "", regex=True)
KeepNumeric(s) == SelectSeq(s, LAMBDA c : c \in Digits \cup {".", "-"})

\* _to_number with an empty residue read as zero.
_to_number_empty_is_zero(cell) ==
    LET s == KeepNumeric(cell)
    IN  IF s = <<>> THEN Num(0) ELSE to_numeric(s)

\* _to_number, on one cell
_to_number(cell) ==
    LET s == KeepNumeric(cell)
    IN  IF s = <<>> THEN NaN ELSE to_numeric(s)

----------------------------------------------------------------------------
(* process_statement *)

ShouldReconcile == "Should Reconcile"
ShouldNotReconcile == "Should Not Reconcile"

\* A raw statement row is [desc, tag, amt]: the texts of the 4th column
\* (description), of the 2nd column and of the Settle.Amt column.

\* desc_col = df.iloc[:,3].astype(str).str.strip()
stmt_desc_col(raw) == [i \in 1..Len(raw) |-> strip(raw[i].desc)]

\* missing_mask: isna() | == "nan"
IsMissing(pin) == pin = NoValue

\* 1. the 11-digit number at the end
PinStep1(desc) == [i \in 1..Len(desc) |-> extract_end11(desc[i])]

\* 2. on the rows still missing: XXP + 8 digits becomes 777 + 8 digits
PinStep2(desc, pin) ==
    [i \in 1..Len(desc) |->
        IF IsMissing(pin[i]) /\ extract_xxp8(desc[i]) # NoValue
        THEN str_777 \o extract_xxp8(desc[i])
        ELSE pin[i]]

\* Step 3 without its still-missing mask: it writes every row.
PinStep3_overwrites(desc, pin) ==
    [i \in 1..Len(desc) |-> extract_777(desc[i])]

\* 3. on the rows still missing: any 11-digit number starting with 777
PinStep3(desc, pin) ==
    [i \in 1..Len(desc) |->
        IF IsMissing(pin[i]) THEN extract_777(desc[i]) ELSE pin[i]]

\* 4. on the rows still missing: any 11-digit number anywhere
PinStep4(desc, pin) ==
    [i \in 1..Len(desc) |->
        IF IsMissing(pin[i]) THEN extract_any11(desc[i]) ELSE pin[i]]

\* The PartnerPin column of the statement: the four steps, then the cleaning.
stmt_PartnerPin(raw) ==
    LET desc == stmt_desc_col(raw)
        pin  == PinStep4(desc, PinStep3(desc, PinStep2(desc, PinStep1(desc))))
    IN  [i \in 1..Len(raw) |-> strip(pin[i])]

\* The pins that more than one row of the column carries.
duplicated_pins(pin, rows) ==
    {pin[i] : i \in {k \in rows : \E j \in rows : j # k /\ pin[j] = pin[k]}}

\* dollar_received_mask
stmt_dollar_received(raw, i) == strip(lower(raw[i].tag)) = str_dollar_received

\* Step 6 with the duplicate pins taken after the "dollar received" rows are
\* set aside.
stmt_ReconcileStatus_dups_after_exclusion(raw, pin) ==
    LET valid_pins == {i \in 1..Len(raw) : pin[i] # NoValue}
        kept       == {i \in valid_pins : ~stmt_dollar_received(raw, i)}
        dup_pins   == duplicated_pins(pin, kept)
    IN  [i \in 1..Len(raw) |->
            IF /\ i \in kept
               /\ \/ pin[i] \notin dup_pins
                  \/ strip(lower(raw[i].tag)) = str_cancel
            THEN ShouldReconcile
            ELSE ShouldNotReconcile]

\* Step 6 of process_statement: the ReconcileStatus column.
stmt_ReconcileStatus(raw, pin) ==
    LET valid_pins == {i \in 1..Len(raw) : pin[i] # NoValue}
        dup_pins   == duplicated_pins(pin, valid_pins)
        non_dup    == {i \in valid_pins : pin[i] \notin dup_pins}
        cancel_dup == {i \in valid_pins :
                          /\ strip(lower(raw[i].tag)) = str_cancel
                          /\ pin[i] \in dup_pins
                          /\ ~stmt_dollar_received(raw, i)}
        non_dup_not_dollar ==
                      {i \in non_dup : ~stmt_dollar_received(raw, i)}
    IN  [i \in 1..Len(raw) |->
            IF i \in cancel_dup \cup non_dup_not_dollar
            THEN ShouldReconcile
            ELSE ShouldNotReconcile]

\* The rows of a frame whose index is in keep, in index order.
RECURSIVE FrameRows(_, _, _)
FrameRows(row, n, keep) ==
    IF n = 0 THEN <<>>
    ELSE FrameRows(row, n - 1, keep)
         \o (IF n \in keep THEN <<row[n]>> ELSE <<>>)

process_statement(raw) ==
    LET pin    == stmt_PartnerPin(raw)
        status == stmt_ReconcileStatus(raw, pin)
        row    == [i \in 1..Len(raw) |->
                      [idx             |-> i,
                       PartnerPin      |-> pin[i],
                       ReconcileStatus |-> status[i],
                       AmountUSD       |-> _to_number(raw[i].amt)]]
    IN  FrameRows(row, Len(raw), {i \in 1..Len(raw) : pin[i] # NoValue})

----------------------------------------------------------------------------
(* process_settlement *)

\* A raw settlement row is [pin, action, payout, rate]: the 4th column (a
\* cell [kind, text], kind "int" for a numeric cell whose decimal digits are
\* text, "text" for a string cell, "blank" for an empty one), the text of the
\* 6th column, and the texts of the PayoutRoundAmt and APIRate columns.

str_nan == <<"n","a","n">>
str_NA == <<"<","N","A",">">>

\* partner_pin_str: a numeric column goes through Int64, any other through
\* astype(str).str.strip().
sett_partner_pin_str(raw) ==
    LET numeric == \A i \in 1..Len(raw) : raw[i].pin.kind # "text"
    IN  [i \in 1..Len(raw) |->
            IF raw[i].pin.kind = "blank"
            THEN (IF numeric THEN str_NA ELSE str_nan)
            ELSE IF raw[i].pin.kind = "int" THEN raw[i].pin.text
            ELSE strip(raw[i].pin.text)]

\* The PartnerPin column of the settlement: the direct match, else the
\* number at the end, else the number anywhere.
sett_PartnerPin(raw) ==
    LET s == sett_partner_pin_str(raw)
    IN  [i \in 1..Len(raw) |->
            IF match_11digits(s[i]) THEN s[i]
            ELSE IF extract_end11(s[i]) # NoValue THEN extract_end11(s[i])
            ELSE extract_any11(s[i])]

\* Quotient of two non-negative numbers of units, with k more decimals.
RECURSIVE LongDiv(_, _, _)
LongDiv(num, den, k) ==
    IF k = 0 THEN num \div den
    ELSE (num \div den) * (10 ^ k) + LongDiv((num % den) * 10, den, k - 1)

Abs(x) == IF x < 0 THEN -x ELSE x

\* payout / rate on floats (rate is not zero here)
Divide(p, r) ==
    IF p.nan \/ r.nan THEN NaN
    ELSE LET q == LongDiv(Abs(p.v), Abs(r.v), 7)
         IN  Num(IF (p.v < 0) # (r.v < 0) THEN -q ELSE q)

\* rate.replace(0, pd.NA) followed by (payout / rate).astype(float): where a
\* rate is 0 the replacement makes the column an object column holding pd.NA,
\* the quotient holds pd.NA, and astype(float) raises TypeError.
sett_amount_raises(raw) ==
    \E i \in 1..Len(raw) :
        LET rate == _to_number(raw[i].rate) IN ~rate.nan /\ rate.v = 0

sett_AmountUSD(raw) ==
    [i \in 1..Len(raw) |->
        Divide(_to_number(raw[i].payout), _to_number(raw[i].rate))]

\* The settlement tagging with the 6th column compared as written, not in
\* lower case.
sett_ReconcileStatus_case_sensitive(raw, pin) ==
    LET rows     == 1..Len(raw)
        dup_pins == duplicated_pins(pin, rows)
    IN  [i \in rows |->
            IF pin[i] \notin dup_pins \/ raw[i].action = str_cancel
            THEN ShouldReconcile
            ELSE ShouldNotReconcile]

\* The ReconcileStatus column of the settlement.
sett_ReconcileStatus(raw, pin) ==
    LET rows       == 1..Len(raw)
        dup_pins   == duplicated_pins(pin, rows)
        non_dup    == {i \in rows : pin[i] \notin dup_pins}
        cancel_dup == {i \in rows : /\ lower(raw[i].action) = str_cancel
                                    /\ pin[i] \in dup_pins}
    IN  [i \in rows |->
            IF i \in cancel_dup \cup non_dup
            THEN ShouldReconcile
            ELSE ShouldNotReconcile]

process_settlement(raw) ==
    LET pin    == sett_PartnerPin(raw)
        amount == sett_AmountUSD(raw)
        status == sett_ReconcileStatus(raw, pin)
        row    == [i \in 1..Len(raw) |->
                      [idx             |-> i,
                       PartnerPin      |-> pin[i],
                       ReconcileStatus |-> status[i],
                       AmountUSD       |-> amount[i]]]
    IN  FrameRows(row, Len(raw), {i \in 1..Len(raw) : pin[i] # NoValue})

----------------------------------------------------------------------------
(* reconcile *)

PresentInBoth == "Present in Both"
PresentInSettlementOnly ==
    "Present in the Settlement File but not in the Partner Statement File"
PresentInStatementOnly ==
    "Not Present in the Settlement File but are present in the Statement File"

Reconciled == "Reconciled"
AmountMismatch == "Amount Mismatch"
MissingInStatement == "Missing in Statement"
MissingInSettlement == "Missing in Settlement"

\* tolerance = 0.01
tolerance == Scale \div 100

\* df[df["ReconcileStatus"] == "Should Reconcile"]
filter_should_reconcile(df) ==
    SelectSeq(df, LAMBDA r : r.ReconcileStatus = ShouldReconcile)

\* The rows whose PartnerPin is not "nan", not "" and is 11 digits.
filter_valid_pin(df) ==
    SelectSeq(df, LAMBDA r : /\ strip(r.PartnerPin) # str_nan
                             /\ strip(r.PartnerPin) # <<>>
                             /\ match_11digits(strip(r.PartnerPin)))

\* drop_duplicates with keep="last"
drop_duplicates_keep_last(df) ==
    LET keep == {i \in 1..Len(df) :
                    ~\E j \in (i + 1)..Len(df) : df[j].PartnerPin = df[i].PartnerPin}
    IN  FrameRows(df, Len(df), keep)

\* drop_duplicates("PartnerPin", keep="first")
RECURSIVE drop_duplicates(_)
drop_duplicates(df) ==
    IF df = <<>> THEN <<>>
    ELSE LET init == SubSeq(df, 1, Len(df) - 1)
             last == df[Len(df)]
         IN  drop_duplicates(init)
             \o (IF \E j \in 1..Len(init) : init[j].PartnerPin = last.PartnerPin
                 THEN <<>>
                 ELSE <<last>>)

\* The keys of a frame, each once, in order of first appearance.
RECURSIVE key_order(_)
key_order(df) ==
    IF df = <<>> THEN <<>>
    ELSE LET init == key_order(SubSeq(df, 1, Len(df) - 1))
             k    == df[Len(df)].PartnerPin
         IN  IF \E j \in 1..Len(init) : init[j] = k THEN init ELSE init \o <<k>>

\* Lexicographic order of two digit strings.
RECURSIVE LexLess(_, _)
LexLess(a, b) ==
    IF b = <<>> THEN FALSE
    ELSE IF a = <<>> THEN TRUE
    ELSE IF Head(a) # Head(b) THEN DigitVal(Head(a)) < DigitVal(Head(b))
    ELSE LexLess(Tail(a), Tail(b))

\* The rows an outer merge emits for one key: every pair of a left and a right
\* row that carry it, or the rows of the one side that has it.
merge_rows_of(left, right, key) ==
    LET L == SelectSeq(left, LAMBDA r : r.PartnerPin = key)
        R == SelectSeq(right, LAMBDA r : r.PartnerPin = key)
    IN  IF R = <<>>
        THEN [k \in 1..Len(L) |->
                 [PartnerPin |-> key, AmountUSD_settlement |-> L[k].AmountUSD,
                  AmountUSD_statement |-> NaN, _merge |-> "left_only"]]
        ELSE IF L = <<>>
        THEN [k \in 1..Len(R) |->
                 [PartnerPin |-> key, AmountUSD_settlement |-> NaN,
                  AmountUSD_statement |-> R[k].AmountUSD, _merge |-> "right_only"]]
        ELSE [k \in 1..(Len(L) * Len(R)) |->
                 [PartnerPin |-> key,
                  AmountUSD_settlement |-> L[((k - 1) \div Len(R)) + 1].AmountUSD,
                  AmountUSD_statement  |-> R[((k - 1) % Len(R)) + 1].AmountUSD,
                  _merge |-> "both"]]

\* The key order of the merge with the frames exchanged: statement keys first.
merge_key_order_statement_first(left, right, sorts) ==
    LET lkeys == key_order(left)
        rkeys == key_order(right)
        lonly == SelectSeq(lkeys,
                     LAMBDA k : ~\E j \in 1..Len(rkeys) : rkeys[j] = k)
    IN  rkeys \o lonly

\* The order in which pd.merge(how="outer") emits the keys.  pandas before 2.2
\* emits the left keys in left order and then the keys only the right frame
\* has; pandas from 2.2 on sorts the keys of an outer merge lexicographically.
merge_key_order(left, right, sorts) ==
    LET lkeys == key_order(left)
        rkeys == key_order(right)
        ronly == SelectSeq(rkeys,
                     LAMBDA k : ~\E j \in 1..Len(lkeys) : lkeys[j] = k)
    IN  IF sorts THEN SortSeq(lkeys \o ronly, LexLess) ELSE lkeys \o ronly

RECURSIVE merge_concat(_, _, _, _)
merge_concat(left, right, keys, n) ==
    IF n = 0 THEN <<>>
    ELSE merge_concat(left, right, keys, n - 1)
         \o merge_rows_of(left, right, keys[n])

\* pd.merge(sett, stmt, on="PartnerPin", how="outer", indicator=True)
merge_outer(left, right, sorts) ==
    LET keys == merge_key_order(left, right, sorts)
    IN  merge_concat(left, right, keys, Len(keys))

\* merged["_merge"].map({...})
classification_of(m) ==
    CASE m = "both"       -> PresentInBoth
      [] m = "left_only"  -> PresentInSettlementOnly
      [] m = "right_only" -> PresentInStatementOnly

\* AmountUSD_settlement - AmountUSD_statement
raw_var(row) ==
    IF row.AmountUSD_settlement.nan \/ row.AmountUSD_statement.nan THEN NaN
    ELSE Num(row.AmountUSD_settlement.v - row.AmountUSD_statement.v)

\* A displayed variance is a float with 6 decimals: its sign bit (so that
\* -0.0 is told from 0.0) and its magnitude in units of 10^-6.
NoVariance == [nan |-> TRUE, neg |-> FALSE, micro |-> 0]

\* .round(6): to the nearest 10^-6, a tie to the even neighbour, sign kept.
round6(x) ==
    IF x.nan THEN NoVariance
    ELSE LET a == Abs(x.v)
             q == a \div 10
             r == a % 10
         IN  [nan   |-> FALSE,
              neg   |-> x.v < 0,
              micro |-> IF r > 5 \/ (r = 5 /\ q % 2 = 1) THEN q + 1 ELSE q]

\* The display variance without the mask.
mask_negative_zero_omitted(d) == d

\* _var_display.mask(_var_display.abs() < 0.0000005, 0.0)
mask_negative_zero(d) ==
    IF ~d.nan /\ d.micro * 10 < 5
    THEN [nan |-> FALSE, neg |-> FALSE, micro |-> 0]
    ELSE d

\* The AmountVariance column: pd.NA outside "both".
amount_variance(row) ==
    IF row._merge = "both"
    THEN mask_negative_zero(round6(raw_var(row)))
    ELSE NoVariance

\* The decision taken on the displayed (rounded) variance.
final_reconcile_status_on_display(row) ==
    IF row._merge = "both"
    THEN (IF ~raw_var(row).nan /\ round6(raw_var(row)).micro * 10 <= tolerance
          THEN Reconciled
          ELSE AmountMismatch)
    ELSE IF row._merge = "left_only" THEN MissingInStatement
    ELSE MissingInSettlement

\* The two "missing" statuses exchanged.
final_reconcile_status_swapped(row) ==
    IF row._merge = "both"
    THEN (IF ~raw_var(row).nan /\ Abs(raw_var(row).v) <= tolerance
          THEN Reconciled
          ELSE AmountMismatch)
    ELSE IF row._merge = "left_only" THEN MissingInSettlement
    ELSE MissingInStatement

\* The FinalReconcileStatus column.
final_reconcile_status(row) ==
    IF row._merge = "both"
    THEN (IF ~raw_var(row).nan /\ Abs(raw_var(row).v) <= tolerance
          THEN Reconciled
          ELSE AmountMismatch)
    ELSE IF row._merge = "left_only" THEN MissingInStatement
    ELSE MissingInSettlement

valid_classifications ==
    {PresentInBoth, PresentInSettlementOnly, PresentInStatementOnly}

reconcile(stmt_df, sett_df, sorts) ==
    LET stmt   == drop_duplicates(filter_valid_pin(filter_should_reconcile(stmt_df)))
        sett   == drop_duplicates(filter_valid_pin(filter_should_reconcile(sett_df)))
        merged == merge_outer(sett, stmt, sorts)
        out    == [k \in 1..Len(merged) |->
                      [PartnerPin           |-> merged[k].PartnerPin,
                       Classification       |-> classification_of(merged[k]._merge),
                       FinalReconcileStatus |-> final_reconcile_status(merged[k]),
                       AmountVariance       |-> amount_variance(merged[k])]]
    IN  SelectSeq(out, LAMBDA r : r.Classification \in valid_classifications)

----------------------------------------------------------------------------
(* app.process: the display of AmountVariance *)

\* The k decimal digits of n, zero padded.
RECURSIVE ZeroPadded(_, _)
ZeroPadded(n, k) ==
    IF k = 0 THEN ""
    ELSE ZeroPadded(n \div 10, k - 1) \o DigitChars[(n % 10) + 1]

\* f"{float(x):.6f}" if pd.notna(x) else "<NA>"
format_variance(x) ==
    IF x.nan THEN "<NA>"
    ELSE (IF x.neg THEN "-" ELSE "")
         \o ToString(x.micro \div (10 ^ 6)) \o "." \o ZeroPadded(x.micro % (10 ^ 6), 6)

render(res) ==
    [k \in 1..Len(res) |->
        [PartnerPin           |-> res[k].PartnerPin,
         Classification       |-> res[k].Classification,
         FinalReconcileStatus |-> res[k].FinalReconcileStatus,
         AmountVariance       |-> format_variance(res[k].AmountVariance)]]

----------------------------------------------------------------------------
(* Inputs: the cells of the uploaded sheets *)

\* "12345678901"
PinA == <<"1","2","3","4","5","6","7","8","9","0","1">>
\* "77712345678"
PinB == <<"7","7","7","1","2","3","4","5","6","7","8">>
\* "77798765432"
PinC == <<"7","7","7","9","8","7","6","5","4","3","2">>
\* "77700001111"
PinD == <<"7","7","7","0","0","0","0","1","1","1","1">>
\* "22222222222"
PinE == <<"2","2","2","2","2","2","2","2","2","2","2">>
\* "transfer ref 77712345678 "
DescEnd == <<"t","r","a","n","s","f","e","r"," ","r","e","f"," ","7","7","7","1","2","3","4","5","6","7","8"," ">>
\* "XXP98765432 note"
DescXXP == <<"X","X","P","9","8","7","6","5","4","3","2"," ","n","o","t","e">>
\* "77700001111 somewhere"
Desc777Mid == <<"7","7","7","0","0","0","0","1","1","1","1"," ","s","o","m","e","w","h","e","r","e">>
\* "12345678901 mid"
DescAnyMid == <<"1","2","3","4","5","6","7","8","9","0","1"," ","m","i","d">>
\* "XXP98765432 77700001111 x"
DescXXPThen777 == <<"X","X","P","9","8","7","6","5","4","3","2"," ","7","7","7","0","0","0","0","1","1","1","1"," ","x">>
\* "12345678901 77700001111 x"
DescAnyThen777 == <<"1","2","3","4","5","6","7","8","9","0","1"," ","7","7","7","0","0","0","0","1","1","1","1"," ","x">>
\* "XXP98765432 ref 12345678901"
DescXXPThenEnd == <<"X","X","P","9","8","7","6","5","4","3","2"," ","r","e","f"," ","1","2","3","4","5","6","7","8","9","0","1">>
\* "fee 1234567890"
DescNoPin == <<"f","e","e"," ","1","2","3","4","5","6","7","8","9","0">>
\* "id 912345678901"
DescTwelveEnd == <<"i","d"," ","9","1","2","3","4","5","6","7","8","9","0","1">>
\* "XXP987654321 z"
DescXXPNine == <<"X","X","P","9","8","7","6","5","4","3","2","1"," ","z">>
\* "payout 22222222222"
DescEndE == <<"p","a","y","o","u","t"," ","2","2","2","2","2","2","2","2","2","2","2">>
\* "Payment"
TagPayment == <<"P","a","y","m","e","n","t">>
\* " Cancel "
TagCancel == <<" ","C","a","n","c","e","l"," ">>
\* "DOLLAR Received "
TagDollar == <<"D","O","L","L","A","R"," ","R","e","c","e","i","v","e","d"," ">>
\* "Paid"
ActPaid == <<"P","a","i","d">>
\* "CANCEL"
ActCancel == <<"C","A","N","C","E","L">>
\* "cancel "
ActCancelSpace == <<"c","a","n","c","e","l"," ">>
\* "ID 12345678901"
CellPinTextEnd == <<"I","D"," ","1","2","3","4","5","6","7","8","9","0","1">>
\* " 77712345678 "
CellPinTextPadded == <<" ","7","7","7","1","2","3","4","5","6","7","8"," ">>
\* "n/a"
CellPinTextNone == <<"n","/","a">>
\* "$100.00"
Amt100 == <<"$","1","0","0",".","0","0">>
\* "100.005"
Amt100_005 == <<"1","0","0",".","0","0","5">>
\* "USD 100.01"
Amt100_01 == <<"U","S","D"," ","1","0","0",".","0","1">>
\* "100.0100003"
Amt100_0100003 == <<"1","0","0",".","0","1","0","0","0","0","3">>
\* "100.0000003"
Amt100_0000003 == <<"1","0","0",".","0","0","0","0","0","0","3">>
\* "n/a"
AmtUnparsable == <<"n","/","a">>
\* "1.0.0"
AmtTwoDots == <<"1",".","0",".","0">>
\* "200.01"
Amt200_01 == <<"2","0","0",".","0","1">>
\* "1"
AmtRate1 == <<"1">>
\* "2.0"
AmtRate2 == <<"2",".","0">>
\* "0"
AmtRate0 == <<"0">>
\* "nan"
AmtBlank == <<"n","a","n">>

StmtRow(d, t, a) == [desc |-> d, tag |-> t, amt |-> a]
SettRow(p, c, po, r) == [pin |-> p, action |-> c, payout |-> po, rate |-> r]
IntCell(digits) == [kind |-> "int", text |-> digits]
TextCell(t) == [kind |-> "text", text |-> t]
BlankCell == [kind |-> "blank", text |-> <<>>]

\* The tables of 1..n rows drawn from a pool of rows.
Tables(pool, n) == UNION {[1..k -> pool] : k \in 1..n}

\* Statement rows that vary the description and the tag of the 2nd column.
StmtDescriptions ==
    {DescEnd, DescXXP, Desc777Mid, DescAnyMid, DescXXPThen777, DescAnyThen777,
     DescXXPThenEnd, DescNoPin, DescTwelveEnd, DescXXPNine}
StmtRowsWide ==
    {StmtRow(d, TagPayment, Amt100) : d \in StmtDescriptions}
    \cup {StmtRow(d, t, Amt100) : d \in {DescEnd, DescXXP, DescXXPNine, DescNoPin},
                                  t \in {TagCancel, TagDollar}}

\* Settlement rows that vary the pin cell, the action, the payout and the rate.
SettRowsWide ==
    {SettRow(p, c, Amt200_01, AmtRate2) :
        p \in {IntCell(PinA), TextCell(CellPinTextEnd)},
        c \in {ActPaid, ActCancel, ActCancelSpace}}
    \cup {SettRow(TextCell(CellPinTextPadded), c, Amt100_0000003, AmtRate1) :
        c \in {ActPaid, ActCancel}}
    \cup {SettRow(IntCell(PinA), ActPaid, a[1], a[2]) :
        a \in {<<Amt100, AmtRate0>>, <<Amt100, AmtBlank>>,
               <<AmtUnparsable, AmtRate1>>}}
    \cup {SettRow(TextCell(CellPinTextPadded), ActCancel, Amt100, AmtRate0),
          SettRow(TextCell(CellPinTextNone), ActPaid, Amt100, AmtRate1),
          SettRow(BlankCell, ActPaid, Amt100, AmtRate1)}

\* Rows of both sheets that share pins: duplicated and single pins, "cancel"
\* and other rows, amounts that parse and amounts that do not.
StmtRowsJoin ==
    {StmtRow(DescXXPThenEnd, TagPayment, Amt100_005),
     StmtRow(DescTwelveEnd, TagCancel, Amt100_01),
     StmtRow(DescEnd, TagPayment, Amt100),
     StmtRow(DescEndE, TagPayment, AmtUnparsable)}
SettRowsJoin ==
    {SettRow(IntCell(PinA), ActCancel, Amt100, AmtRate1),
     SettRow(TextCell(CellPinTextEnd), ActCancel, Amt200_01, AmtRate2),
     SettRow(TextCell(CellPinTextPadded), ActPaid, AmtTwoDots, AmtRate1),
     SettRow(IntCell(PinE), ActPaid, Amt100, AmtRate1)}

\* Rows of both sheets that share pins and differ in amount.
StmtRowsAmounts ==
    {StmtRow(DescXXPThenEnd, TagPayment, Amt100_005),
     StmtRow(DescTwelveEnd, TagCancel, Amt100_01),
     StmtRow(DescTwelveEnd, TagCancel, Amt100_0100003),
     StmtRow(DescEnd, TagPayment, Amt100_0000003)}
SettRowsAmounts ==
    {SettRow(IntCell(PinA), ActPaid, Amt100, AmtRate1),
     SettRow(TextCell(CellPinTextEnd), ActCancel, Amt200_01, AmtRate2),
     SettRow(TextCell(CellPinTextPadded), ActPaid, Amt100, AmtRate1)}

\* One fixed sheet of each kind, for the runs that vary the other one.
StmtSheetFixed ==
    <<StmtRow(DescAnyMid, TagPayment, Amt100_005),
      StmtRow(DescEnd, TagPayment, Amt100)>>
SettSheetFixed ==
    <<SettRow(TextCell(CellPinTextPadded), ActPaid, Amt100, AmtRate1),
      SettRow(IntCell(PinA), ActPaid, Amt200_01, AmtRate2)>>

----------------------------------------------------------------------------
(* The upload handler: app.process *)

VARIABLES
    stmtRaw,         \* the data rows of the uploaded statement sheet
    settRaw,         \* the data rows of the uploaded settlement sheet
    outerSortsKeys,  \* whether the installed pandas sorts an outer merge's keys
    pc,              \* position of the handler
    stmt_df,         \* process_statement's result
    sett_df,         \* process_settlement's result
    result,          \* reconcile's result
    table            \* the rows handed to the results page

vars == <<stmtRaw, settRaw, outerSortsKeys, pc, stmt_df, sett_df, result, table>>

InitHandler ==
    /\ outerSortsKeys \in BOOLEAN
    /\ pc = "uploaded"
    /\ stmt_df = <<>>
    /\ sett_df = <<>>
    /\ result = <<>>
    /\ table = <<>>

\* Uploads that vary the statement sheet.
InitStatement ==
    /\ stmtRaw \in Tables(StmtRowsWide, MaxStmtRows)
    /\ settRaw = SettSheetFixed
    /\ InitHandler

\* Uploads that vary the settlement sheet.
InitSettlement ==
    /\ stmtRaw = StmtSheetFixed
    /\ settRaw \in Tables(SettRowsWide, MaxSettRows)
    /\ InitHandler

\* Uploads that vary the amounts of rows with shared pins.
InitAmounts ==
    /\ stmtRaw \in Tables(StmtRowsAmounts, MaxStmtRows)
    /\ settRaw \in Tables(SettRowsAmounts, MaxSettRows)
    /\ InitHandler

\* Uploads that vary both sheets over shared pins.
Init ==
    /\ stmtRaw \in Tables(StmtRowsJoin, MaxStmtRows)
    /\ settRaw \in Tables(SettRowsJoin, MaxSettRows)
    /\ InitHandler

\* stmt_df = process_statement(stmt_path)
ProcessStatement ==
    /\ pc = "uploaded"
    /\ stmt_df' = process_statement(stmtRaw)
    /\ pc' = "statement_ready"
    /\ UNCHANGED <<stmtRaw, settRaw, outerSortsKeys, sett_df, result, table>>

\* sett_df = process_settlement(sett_path); a TypeError ends the request.
ProcessSettlement ==
    /\ pc = "statement_ready"
    /\ IF sett_amount_raises(settRaw)
       THEN /\ pc' = "error"
            /\ UNCHANGED sett_df
       ELSE /\ pc' = "settlement_ready"
            /\ sett_df' = process_settlement(settRaw)
    /\ UNCHANGED <<stmtRaw, settRaw, outerSortsKeys, stmt_df, result, table>>

\* result = reconcile(stmt_df, sett_df)
Reconcile ==
    /\ pc = "settlement_ready"
    /\ result' = reconcile(stmt_df, sett_df, outerSortsKeys)
    /\ pc' = "reconciled"
    /\ UNCHANGED <<stmtRaw, settRaw, outerSortsKeys, stmt_df, sett_df, table>>

\* The display formatting of AmountVariance and the table of the page.
Render ==
    /\ pc = "reconciled"
    /\ table' = render(result)
    /\ pc' = "rendered"
    /\ UNCHANGED <<stmtRaw, settRaw, outerSortsKeys, stmt_df, sett_df, result>>

Next == ProcessStatement \/ ProcessSettlement \/ Reconcile \/ Render

Spec == Init /\ [][Next]_vars
SpecStatement == InitStatement /\ [][Next]_vars
SpecAmounts == InitAmounts /\ [][Next]_vars
SpecSettlement == InitSettlement /\ [][Next]_vars

----------------------------------------------------------------------------
(* Vocabulary of the properties *)

StatementDone == pc # "uploaded"
SettlementDone == pc \in {"settlement_ready", "reconciled", "rendered"}
ReconcileDone == pc \in {"reconciled", "rendered"}

\* The rows of a prepared table that enter the join: tagged Should Reconcile,
\* with a pin of 11 digits.
IsEligible(r) ==
    /\ r.ReconcileStatus = ShouldReconcile
    /\ Len(r.PartnerPin) = 11
    /\ \A i \in 1..11 : r.PartnerPin[i] \in Digits

EligiblePins(df) == {df[i].PartnerPin : i \in {j \in 1..Len(df) : IsEligible(df[j])}}

\* The amount of the first eligible row of df, in source order, with this pin.
FirstAmount(df, pin) ==
    LET rows == {j \in 1..Len(df) : IsEligible(df[j]) /\ df[j].PartnerPin = pin}
        j    == CHOOSE x \in rows : \A y \in rows : x <= y
    IN  df[j].AmountUSD

\* The position in df of the first eligible row with this pin.
FirstEligibleRow(df, pin) ==
    LET rows == {j \in 1..Len(df) : IsEligible(df[j]) /\ df[j].PartnerPin = pin}
    IN  CHOOSE x \in rows : \A y \in rows : x <= y

ResultPins == {result[k].PartnerPin : k \in 1..Len(result)}

\* The pins of a prepared table that more than one of its rows carries.
DuplicatePins(df) ==
    {df[i].PartnerPin : i \in {j \in 1..Len(df) :
        \E k \in 1..Len(df) : k # j /\ df[k].PartnerPin = df[j].PartnerPin}}

\* The text of a cell in lower case (and trimmed).
Normalised(t) == strip(lower(t))

----------------------------------------------------------------------------
(* C1 *)

\* Both amounts exist and differ by at most 0.01 (1/100 of Scale units).
WithinOneCent(sa, ta) ==
    /\ ~sa.nan
    /\ ~ta.nan
    /\ (sa.v - ta.v) * 100 <= Scale
    /\ (ta.v - sa.v) * 100 <= Scale

----------------------------------------------------------------------------
(* C2 *)

\* C2: every returned record carries one of the three classifications and one
\* of the four final statuses; a settlement-only record is Missing in Statement
\* and a statement-only record is Missing in Settlement.
C2_MissingStatusFollowsClassification ==
    ReconcileDone =>
        \A k \in 1..Len(result) :
            /\ result[k].Classification \in
                   {PresentInBoth, PresentInSettlementOnly, PresentInStatementOnly}
            /\ result[k].FinalReconcileStatus \in
                   {Reconciled, AmountMismatch, MissingInStatement, MissingInSettlement}
            /\ result[k].Classification = PresentInSettlementOnly
                   => result[k].FinalReconcileStatus = MissingInStatement
            /\ result[k].Classification = PresentInStatementOnly
                   => result[k].FinalReconcileStatus = MissingInSettlement

\* A result holding a settlement-only and a statement-only record.
C2_Witness ==
    /\ ReconcileDone
    /\ \E k \in 1..Len(result) :
          /\ result[k].Classification = PresentInSettlementOnly
          /\ result[k].FinalReconcileStatus = MissingInStatement
    /\ \E k \in 1..Len(result) :
          /\ result[k].Classification = PresentInStatementOnly
          /\ result[k].FinalReconcileStatus = MissingInSettlement

----------------------------------------------------------------------------
(* C3 *)

\* The variance of two amounts as the report holds it: no value when an
\* amount is missing, else the difference to the nearest 10^-6 (tie to even),
\* a zero being the positive zero.
ExpectedVariance(sa, ta) ==
    IF sa.nan \/ ta.nan THEN NoVariance
    ELSE LET d  == sa.v - ta.v
             a  == IF d < 0 THEN -d ELSE d
             lo == a \div 10
             m  == IF a - lo * 10 > 5 \/ (a - lo * 10 = 5 /\ lo % 2 = 1)
                   THEN lo + 1 ELSE lo
         IN  [nan |-> FALSE, neg |-> d < 0 /\ m > 0, micro |-> m]

\* C3: the result holds exactly one record for each pin that is eligible on
\* either side and none for any other pin; the record is Present in Both
\* exactly when the pin is eligible on both sides, settlement-only or
\* statement-only when on that side only; and each side's amount is that of
\* its first eligible row with the pin.
C3_OneRecordPerEligiblePin ==
    ReconcileDone =>
        /\ ResultPins = EligiblePins(sett_df) \cup EligiblePins(stmt_df)
        /\ \A k, l \in 1..Len(result) :
              result[k].PartnerPin = result[l].PartnerPin => k = l
        /\ \A k \in 1..Len(result) :
              LET pin    == result[k].PartnerPin
                  inSett == pin \in EligiblePins(sett_df)
                  inStmt == pin \in EligiblePins(stmt_df)
              IN  /\ result[k].Classification =
                         IF inSett /\ inStmt THEN PresentInBoth
                         ELSE IF inSett THEN PresentInSettlementOnly
                         ELSE PresentInStatementOnly
                  /\ inSett /\ inStmt =>
                         result[k].AmountVariance =
                             ExpectedVariance(FirstAmount(sett_df, pin),
                                              FirstAmount(stmt_df, pin))

\* The settlement holds two eligible rows of one pin with different amounts,
\* the statement has the pin too, and the result holds the pin's record.
C3_Witness ==
    /\ ReconcileDone
    /\ \E i, j \in 1..Len(sett_df) :
          /\ i < j
          /\ IsEligible(sett_df[i])
          /\ IsEligible(sett_df[j])
          /\ sett_df[i].PartnerPin = sett_df[j].PartnerPin
          /\ sett_df[i].AmountUSD # sett_df[j].AmountUSD
          /\ sett_df[i].PartnerPin \in EligiblePins(stmt_df)
          /\ sett_df[i].PartnerPin \in ResultPins
    /\ \E p \in ResultPins : p \notin EligiblePins(sett_df)

----------------------------------------------------------------------------
(* C4 *)

\* The positions of text d where the literal pre, followed by n digits, starts.
Occurrences(d, pre, n) ==
    {i \in 1..Len(d) :
        /\ i + Len(pre) + n - 1 <= Len(d)
        /\ \A j \in 1..Len(pre) : d[i + j - 1] = pre[j]
        /\ \A j \in 1..n : d[i + Len(pre) + j - 1] \in Digits}

First(S) == CHOOSE x \in S : \A y \in S : x <= y

\* Step 1: the text ends in 11 digits.
EndsIn11Digits(d) == Len(d) >= 11 /\ \A j \in 0..10 : d[Len(d) - j] \in Digits

\* The pin the four steps give for the (trimmed) description d: the result of
\* the first step that succeeds, NoValue when all four fail.
ExpectedPin(d) ==
    IF EndsIn11Digits(d) THEN SubSeq(d, Len(d) - 10, Len(d))
    ELSE IF Occurrences(d, str_XXP, 8) # {}
    THEN LET i == First(Occurrences(d, str_XXP, 8))
         IN  str_777 \o SubSeq(d, i + 3, i + 10)
    ELSE IF Occurrences(d, str_777, 8) # {}
    THEN LET i == First(Occurrences(d, str_777, 8)) IN SubSeq(d, i, i + 10)
    ELSE IF Occurrences(d, <<>>, 11) # {}
    THEN LET i == First(Occurrences(d, <<>>, 11)) IN SubSeq(d, i, i + 10)
    ELSE NoValue

\* The row of a prepared table that came from source row i, as a set.
RowsOf(df, i) == {k \in 1..Len(df) : df[k].idx = i}

\* C4: the pin of a statement row is the result of the first of the four
\* steps, in their order, that succeeds on its description; it has 11 digits;
\* a row on which all four fail is absent from the returned table.  The
\* spec's examples: "XXP98765432 note" gives 77798765432, a text ending in
\* 77712345678 gives it, 77700001111 in mid-text gives it.
C4_PinIsFirstSuccessfulStep ==
    StatementDone =>
        \A i \in 1..Len(stmtRaw) :
            LET d   == strip(stmtRaw[i].desc)
                exp == ExpectedPin(d)
            IN  /\ exp = NoValue => RowsOf(stmt_df, i) = {}
                /\ exp # NoValue =>
                      /\ Cardinality(RowsOf(stmt_df, i)) = 1
                      /\ \A k \in RowsOf(stmt_df, i) :
                            /\ stmt_df[k].PartnerPin = exp
                            /\ Len(stmt_df[k].PartnerPin) = 11
                            /\ \A j \in 1..11 : stmt_df[k].PartnerPin[j] \in Digits
                /\ stmtRaw[i].desc = DescXXP =>
                      \E k \in RowsOf(stmt_df, i) : stmt_df[k].PartnerPin = PinC
                /\ stmtRaw[i].desc = DescEnd =>
                      \E k \in RowsOf(stmt_df, i) : stmt_df[k].PartnerPin = PinB
                /\ stmtRaw[i].desc = Desc777Mid =>
                      \E k \in RowsOf(stmt_df, i) : stmt_df[k].PartnerPin = PinD

\* A description where step 2 and step 3 would both succeed got the pin of
\* step 2, next to a row on which every step failed and which was dropped.
C4_Witness ==
    /\ StatementDone
    /\ \E i \in 1..Len(stmtRaw) :
          /\ stmtRaw[i].desc = DescXXPThen777
          /\ \E k \in RowsOf(stmt_df, i) : stmt_df[k].PartnerPin = PinC
    /\ \E i \in 1..Len(stmtRaw) :
          /\ stmtRaw[i].desc = DescNoPin
          /\ RowsOf(stmt_df, i) = {}

----------------------------------------------------------------------------
(* C5 *)

\* C5: with the duplicate pins taken over all returned rows (those tagged
\* "dollar received" included), a returned statement row is Should Reconcile
\* exactly when its 2nd column is not "dollar received" and its pin is not
\* duplicated or its 2nd column is "cancel"; every other row is Should Not
\* Reconcile.
C5_StatementEligibility ==
    StatementDone =>
        \A k \in 1..Len(stmt_df) :
            LET tag == Normalised(stmtRaw[stmt_df[k].idx].tag)
                dup == stmt_df[k].PartnerPin \in DuplicatePins(stmt_df)
            IN  /\ stmt_df[k].ReconcileStatus \in {ShouldReconcile, ShouldNotReconcile}
                /\ stmt_df[k].ReconcileStatus = ShouldReconcile
                      <=> /\ tag # str_dollar_received
                          /\ (~dup \/ (tag = str_cancel /\ dup))

\* Two rows share a pin, one of them tagged "dollar received" and the other
\* not "cancel": both are Should Not Reconcile.
C5_Witness ==
    /\ StatementDone
    /\ \E k, l \in 1..Len(stmt_df) :
          /\ k # l
          /\ stmt_df[k].PartnerPin = stmt_df[l].PartnerPin
          /\ Normalised(stmtRaw[stmt_df[k].idx].tag) = str_dollar_received
          /\ Normalised(stmtRaw[stmt_df[l].idx].tag)
                \notin {str_dollar_received, str_cancel}
          /\ stmt_df[k].ReconcileStatus = ShouldNotReconcile
          /\ stmt_df[l].ReconcileStatus = ShouldNotReconcile

----------------------------------------------------------------------------
(* C6 *)

\* C6: AmountVariance has a value only on a Present in Both record; there it
\* is within half of 10^-6 of the settlement amount minus the statement
\* amount, has the sign of that difference unless it is zero, a zero is the
\* positive zero, and the page never shows -0.000000.
C6_VarianceRoundedNoNegativeZero ==
    ReconcileDone =>
        \A k \in 1..Len(result) :
            LET v == result[k].AmountVariance
            IN  /\ result[k].Classification # PresentInBoth => v.nan
                /\ ~v.nan =>
                      LET d == FirstAmount(sett_df, result[k].PartnerPin).v
                               - FirstAmount(stmt_df, result[k].PartnerPin).v
                          a == IF d < 0 THEN -d ELSE d
                      IN  /\ v.micro * 10 - a <= 5
                          /\ a - v.micro * 10 <= 5
                          /\ v.neg => d < 0 /\ v.micro > 0
                          /\ d > 0 /\ v.micro > 0 => ~v.neg
                          /\ a * 2 < 10 => v.micro = 0
                /\ pc = "rendered" =>
                      /\ table[k].AmountVariance # "-0.000000"
                      /\ v.nan <=> table[k].AmountVariance = "<NA>"
                      /\ ~v.nan /\ v.micro = 0 => table[k].AmountVariance = "0.000000"

\* A Present in Both record whose amounts differ by -0.0000003 is shown as
\* 0.000000.
C6_Witness ==
    /\ pc = "rendered"
    /\ \E k \in 1..Len(result) :
          /\ result[k].Classification = PresentInBoth
          /\ FirstAmount(sett_df, result[k].PartnerPin).v
                - FirstAmount(stmt_df, result[k].PartnerPin).v = -3
          /\ table[k].AmountVariance = "0.000000"

----------------------------------------------------------------------------
(* C7 *)

\* Amount texts that do not parse: no digit at all, two decimal points.
UnparsableAmounts == {AmtUnparsable, AmtTwoDots, AmtBlank}

\* C7: a statement row whose amount does not parse is returned with
\* AmountUSD = no value and its eligibility tag, a settlement row whose payout
\* or rate does not parse likewise, and the run goes on; an eligible pin of
\* such a row has its record, classified by the sides the pin is eligible on;
\* a Present in Both record with an amount missing has no AmountVariance.
C7_UnparsableAmountIsNoValue ==
    /\ StatementDone =>
          \A k \in 1..Len(stmt_df) :
              stmtRaw[stmt_df[k].idx].amt \in UnparsableAmounts
                  => stmt_df[k].AmountUSD = NaN
    /\ SettlementDone =>
          \A k \in 1..Len(sett_df) :
              (\/ settRaw[sett_df[k].idx].payout \in UnparsableAmounts
               \/ settRaw[sett_df[k].idx].rate \in UnparsableAmounts)
                  => sett_df[k].AmountUSD = NaN
    /\ (\A i \in 1..Len(settRaw) : settRaw[i].rate # AmtRate0) => pc # "error"
    /\ ReconcileDone =>
          /\ \A k \in 1..Len(stmt_df) :
                IsEligible(stmt_df[k]) /\ stmt_df[k].AmountUSD = NaN
                    => stmt_df[k].PartnerPin \in ResultPins
          /\ \A k \in 1..Len(sett_df) :
                IsEligible(sett_df[k]) /\ sett_df[k].AmountUSD = NaN
                    => sett_df[k].PartnerPin \in ResultPins
          /\ \A k \in 1..Len(result) :
                LET pin    == result[k].PartnerPin
                    inSett == pin \in EligiblePins(sett_df)
                    inStmt == pin \in EligiblePins(stmt_df)
                IN  /\ result[k].Classification = PresentInBoth <=> inSett /\ inStmt
                    /\ result[k].Classification = PresentInSettlementOnly
                          <=> inSett /\ ~inStmt
                    /\ (/\ inSett
                        /\ inStmt
                        /\ (FirstAmount(sett_df, pin).nan \/ FirstAmount(stmt_df, pin).nan))
                          => (/\ result[k].AmountVariance.nan
                              /\ pc = "rendered" => table[k].AmountVariance = "<NA>")

\* A pin whose statement amount did not parse and a pin whose settlement
\* payout did not parse each have a Present in Both record without variance.
C7_Witness ==
    /\ pc = "rendered"
    /\ \E k \in 1..Len(result) :
          /\ result[k].Classification = PresentInBoth
          /\ table[k].AmountVariance = "<NA>"
          /\ stmtRaw[stmt_df[FirstEligibleRow(stmt_df, result[k].PartnerPin)].idx].amt
                \in UnparsableAmounts
          /\ ~FirstAmount(sett_df, result[k].PartnerPin).nan
    /\ \E k \in 1..Len(result) :
          /\ result[k].Classification = PresentInBoth
          /\ table[k].AmountVariance = "<NA>"
          /\ settRaw[sett_df[FirstEligibleRow(sett_df, result[k].PartnerPin)].idx].payout
                \in UnparsableAmounts
          /\ ~FirstAmount(stmt_df, result[k].PartnerPin).nan

----------------------------------------------------------------------------
(* C8 *)

\* The records of pins eligible in the settlement come first, in the order of
\* the settlement rows; the statement-only records follow.
SettlementPinsFirst ==
    \A k, l \in 1..Len(result) :
        k < l =>
            LET pk == result[k].PartnerPin
                pl == result[l].PartnerPin
            IN  /\ pl \in EligiblePins(sett_df) => pk \in EligiblePins(sett_df)
                /\ pk \in EligiblePins(sett_df) /\ pl \in EligiblePins(sett_df)
                      => FirstEligibleRow(sett_df, pk) < FirstEligibleRow(sett_df, pl)

\* Pin a comes before pin b in the order of their digits.
PinBefore(a, b) ==
    \E i \in 1..11 :
        /\ \A j \in 1..(i - 1) : a[j] = b[j]
        /\ DigitVal(a[i]) < DigitVal(b[i])

AscendingPins ==
    \A k, l \in 1..Len(result) :
        k < l => PinBefore(result[k].PartnerPin, result[l].PartnerPin)

\* C8 as stated: the records are ordered settlement pins first, in settlement
\* row order, then the statement-only pins.
C8_SettlementPinsFirst == ReconcileDone => SettlementPinsFirst

\* C8 as amended: the records are in the order the outer merge emits its keys:
\* settlement pins first in settlement row order and then the statement-only
\* pins where pandas does not sort an outer merge (before 2.2), ascending pins
\* where it does (2.2 and later).
C8_OrderIsMergeEmissionOrder ==
    ReconcileDone =>
        IF outerSortsKeys THEN AscendingPins ELSE SettlementPinsFirst

\* Under a sorting merge the result is ascending although the settlement rows
\* list the pins the other way round.
C8_Witness ==
    /\ ReconcileDone
    /\ outerSortsKeys
    /\ Len(result) >= 2
    /\ AscendingPins
    /\ ~SettlementPinsFirst

----------------------------------------------------------------------------
(* C9 *)

\* C9: with the duplicate pins taken over all returned rows, a returned
\* settlement row is Should Reconcile exactly when its pin is not duplicated,
\* or it is and the 6th column is "cancel" in any letter case; a row of a
\* duplicated pin that is not "cancel" is Should Not Reconcile.
C9_SettlementEligibility ==
    SettlementDone =>
        \A k \in 1..Len(sett_df) :
            LET action == lower(settRaw[sett_df[k].idx].action)
                dup    == sett_df[k].PartnerPin \in DuplicatePins(sett_df)
            IN  /\ sett_df[k].ReconcileStatus \in {ShouldReconcile, ShouldNotReconcile}
                /\ sett_df[k].ReconcileStatus = ShouldReconcile
                      <=> (~dup \/ (dup /\ action = str_cancel))
                /\ dup /\ action # str_cancel
                      => sett_df[k].ReconcileStatus = ShouldNotReconcile

\* Two rows share a pin: the one written CANCEL is Should Reconcile, the
\* other is not.
C9_Witness ==
    /\ SettlementDone
    /\ \E k, l \in 1..Len(sett_df) :
          /\ k # l
          /\ sett_df[k].PartnerPin = sett_df[l].PartnerPin
          /\ settRaw[sett_df[k].idx].action = ActCancel
          /\ sett_df[k].ReconcileStatus = ShouldReconcile
          /\ sett_df[l].ReconcileStatus = ShouldNotReconcile

----------------------------------------------------------------------------
(* C10 *)

\* The settlement rows whose 4th column holds an 11-digit number.
SettRowsWithPin ==
    {i \in 1..Len(settRaw) : settRaw[i].pin.kind # "blank"
                             /\ settRaw[i].pin.text # CellPinTextNone}

\* C10: process_settlement returns every row that has a pin, with AmountUSD =
\* payout / rate where the rate is a non-zero number and AmountUSD = no value
\* where the rate is zero or missing; a zero rate does not fail the run.
C10_ZeroRateGivesNoValue ==
    pc \notin {"uploaded", "statement_ready"} =>
        /\ pc # "error"
        /\ \A i \in SettRowsWithPin :
              /\ Cardinality(RowsOf(sett_df, i)) = 1
              /\ \A k \in RowsOf(sett_df, i) :
                    LET rate   == _to_number(settRaw[i].rate)
                        payout == _to_number(settRaw[i].payout)
                    IN  /\ sett_df[k].ReconcileStatus
                              \in {ShouldReconcile, ShouldNotReconcile}
                        /\ rate.nan \/ rate.v = 0 => sett_df[k].AmountUSD = NaN
                        /\ ~rate.nan /\ rate.v # 0 /\ ~payout.nan
                              => /\ ~sett_df[k].AmountUSD.nan
                                 /\ sett_df[k].AmountUSD.v * (rate.v \div Scale)
                                        = payout.v

====
